---------------------------- MODULE Spec2Model ----------------------------
(***************************************************************************)
(* Model of src/src/script/adjust_speech_timing.py: the tempo adjuster     *)
(* (main -> adjust_audio_tempo -> fallback_to_atempo), and of the chunked  *)
(* separation of src/src/script/separate_audio.py (main -> separate_audio  *)
(* -> process_audio_chunks), see the end of the module.                    *)
(*                                                                         *)
(* Numbers.  The script computes with Python floats.  Durations are drawn  *)
(* from the integer grid 0..MaxDur and every derived value is kept as an   *)
(* exact fraction <<n, d>> in lowest terms.  On this grid the double       *)
(* results of every comparison in the script agree with the exact          *)
(* fractions, with one exception that is modelled as the doubles behave:   *)
(* abs(clamped_stretch - 1.0) <= 0.05 is false at a ratio of exactly 0.95  *)
(* or 1.05 (both differences round to 0.05000000000000004), see            *)
(* WithinFivePercent.  Division by 2.0 and by 0.5 is exact in doubles.     *)
(*                                                                         *)
(* External tools (rubberband, ffprobe, ffmpeg) are black boxes: each run  *)
(* is a step whose outcome is chosen nondeterministically.  The variable   *)
(* cmds is the history of the external commands run so far.  What the      *)
(* tools write is not modelled beyond which step last wrote output_file;   *)
(* final_duration and duration_difference, which only echo the re-probe,   *)
(* are left out of the result, and shutil.copy2 is taken to succeed.       *)
(***************************************************************************)
EXTENDS Integers, Sequences, FiniteSets

\* Durations (seconds) are drawn from 0..MaxDur, targets from -1..MaxDur.
MaxDur == 101

---------------------------------------------------------------------------
\* Exact fractions <<n, d>>, d > 0, in lowest terms.

RECURSIVE GCD(_, _)
GCD(a, b) == IF b = 0 THEN a ELSE GCD(b, a % b)

AbsInt(n) == IF n < 0 THEN -n ELSE n

Rat(n, d) ==
    LET g == GCD(AbsInt(n), d)
    IN  <<n \div g, d \div g>>

Lt(a, b) == a[1] * b[2] < b[1] * a[2]
Le(a, b) == a[1] * b[2] <= b[1] * a[2]
RMin(a, b) == IF Lt(b, a) THEN b ELSE a
RMax(a, b) == IF Lt(a, b) THEN b ELSE a
RDiv(a, b) == Rat(a[1] * b[2], a[2] * b[1])
RMul(a, b) == Rat(a[1] * b[1], a[2] * b[2])
RSub(a, b) == Rat(a[1] * b[2] - b[1] * a[2], a[2] * b[2])
RAbs(a) == <<AbsInt(a[1]), a[2]>>

Zero == <<0, 1>>
One == <<1, 1>>
Two == <<2, 1>>
Half == <<1, 2>>

RECURSIVE Product(_)
Product(s) == IF s = <<>> THEN One ELSE RMul(Head(s), Product(Tail(s)))

---------------------------------------------------------------------------
\* Program constants.

min_stretch == <<3, 10>>          \* 0.3
max_stretch == <<3, 1>>           \* 3.0
ClampNoteTolerance == <<1, 1000>> \* 0.001
atempo_min == Half                \* 0.5
atempo_max == <<100, 1>>          \* 100.0

\* Mutant: the stretch ratio is not clamped.
ClampStretch_None(s) == s

\* max(min_stretch, min(max_stretch, stretch_ratio))
ClampStretch(s) == RMax(min_stretch, RMin(max_stretch, s))

\* abs(clamped_stretch - stretch_ratio) > 0.001
ClampNoteNeeded(clamped, s) == Lt(ClampNoteTolerance, RAbs(RSub(clamped, s)))

\* Mutant: the threshold taken on the tempo 1/s instead of the stretch ratio.
WithinFivePercent_OfTempo(s) ==
    Lt(RAbs(RSub(RDiv(<<1, 1>>, s), <<1, 1>>)), <<1, 20>>)

\* abs(clamped_stretch - 1.0) <= 0.05 as evaluated on doubles: true for every
\* grid ratio strictly within 5% of 1, false at exactly 0.95 and 1.05.
WithinFivePercent(s) == Lt(RAbs(RSub(s, One)), <<1, 20>>)

\* Mutant: no lower clamp, min(100.0, tempo).
ClampTempo_NoLower(t) == IF t[1] * 1 < 100 * t[2] THEN t ELSE <<100, 1>>

\* max(0.5, min(100.0, tempo))
ClampTempo(t) == RMax(atempo_min, RMin(atempo_max, t))

\* Mutant: while remaining_tempo > 4.0
PeelHiGuard_Four(r) == r[1] > 4 * r[2]

\* Mutant: while remaining_tempo > 1.0
PeelHiGuard_One(r) == r[1] > r[2]

\* while remaining_tempo > 2.0
PeelHiGuard(r) == Lt(Two, r)

\* while remaining_tempo < 0.5
PeelLoGuard(r) == Lt(r, Half)

\* Mutant: the remainder is appended also when it is 1.0.
AppendRemainder_Always(f, r) == Append(f, r)

\* if remaining_tempo != 1.0: filters.append(remaining_tempo)
AppendRemainder(f, r) == IF r # One THEN Append(f, r) ELSE f

\* f'{t:.6f}': the stage rounded to six decimals, in millionths.
Fmt6(t) == (2 * t[1] * 1000000 + t[2]) \div (2 * t[2])

\* ','.join([f'atempo={t:.6f}' for t in filters])
AtempoChain(f) == [i \in 1..Len(f) |-> Fmt6(f[i])]

---------------------------------------------------------------------------
VARIABLES
    entry,             \* "main": the CLI; "fallback": fallback_to_atempo called directly
    pc,                \* position in the program
    input_exists,      \* os.path.exists(input_file)
    file_duration,     \* what ffprobe reports for the input file
    target_duration,   \* argument
    current_duration,  \* probed duration (0 before the probe)
    required_tempo, stretch_ratio, clamped_stretch, clamped_tempo,
    tempo,             \* fallback_to_atempo's parameter
    fb_clamped_tempo,  \* fallback_to_atempo's local clamped_tempo
    remaining_tempo, filters, atempo_chain,
    hi_iters, lo_iters,\* iterations made by the two peeling loops
    rb_time,           \* the --time argument rubberband was run with
    cmds,              \* external commands run so far, with outcome
    printed,           \* messages printed to standard output
    output,            \* what was last written to output_file
    result,            \* <<>> or <<the returned dict>>
    error,             \* "none" or the exception raised
    exit_code,         \* -1 while running
    stderr,            \* what main printed to standard error
    \* separate_audio.py
    chunk_duration,    \* argument (seconds)
    duration,          \* librosa.get_duration (0 before it is read)
    start_time, end_time, chunk_start, chunk_end,
    vocals_full,       \* the concatenated chunks, each as the interval
    accompaniment_full \* <<from, to>> of the input it was separated from

vars == <<entry, pc, input_exists, file_duration, target_duration,
          current_duration, required_tempo, stretch_ratio, clamped_stretch,
          clamped_tempo, tempo, fb_clamped_tempo, remaining_tempo, filters,
          atempo_chain, hi_iters, lo_iters, rb_time, cmds, printed, output,
          result, error, exit_code, stderr, chunk_duration, duration,
          start_time, end_time, chunk_start, chunk_end, vocals_full,
          accompaniment_full>>

inputVars == <<entry, input_exists, file_duration, target_duration>>
adjustLocals == <<current_duration, required_tempo, stretch_ratio,
                  clamped_stretch, clamped_tempo>>
fallbackLocals == <<tempo, fb_clamped_tempo, remaining_tempo, filters,
                    atempo_chain, hi_iters, lo_iters>>
mainVars == <<exit_code, stderr>>
sepVars == <<chunk_duration, duration, start_time, end_time, chunk_start,
             chunk_end, vocals_full, accompaniment_full>>

\* outcome: "ok"; "failed" (subprocess.CalledProcessError: the command exited
\* non-zero); "oserror" (the command could not be started).
Ran(c, outcome) == Append(cmds, [cmd |-> c, outcome |-> outcome])

OkOrFailed(ok) == IF ok THEN "ok" ELSE "failed"

Count(c) == Cardinality({i \in 1..Len(cmds) : cmds[i].cmd = c})

Fresh ==
    /\ required_tempo = Zero /\ stretch_ratio = Zero
    /\ clamped_stretch = Zero /\ clamped_tempo = Zero
    /\ fb_clamped_tempo = Zero /\ remaining_tempo = Zero
    /\ filters = <<>> /\ atempo_chain = <<>>
    /\ hi_iters = 0 /\ lo_iters = 0
    /\ rb_time = Zero
    /\ cmds = <<>> /\ printed = {} /\ output = "none"
    /\ result = <<>> /\ error = "none"
    /\ exit_code = -1 /\ stderr = "none"

\* separate_audio.py has not run.
SepFresh ==
    /\ duration = 0
    /\ start_time = 0 /\ end_time = 0
    /\ chunk_start = 0 /\ chunk_end = 0
    /\ vocals_full = <<>> /\ accompaniment_full = <<>>

\* python adjust_speech_timing.py <input_file> <target_duration> <output_file>
Init ==
    /\ entry = "main"
    /\ pc = "validate"
    /\ input_exists \in BOOLEAN
    /\ file_duration \in 0..MaxDur
    /\ (~input_exists => file_duration = 0)
    /\ target_duration \in -1..MaxDur
    /\ current_duration = 0
    /\ tempo = Zero
    /\ Fresh
    /\ chunk_duration = 0 /\ SepFresh

\* raise ...
Raise(e) ==
    /\ pc' = "raised"
    /\ error' = e
    /\ UNCHANGED result

\* return {...}
Return(r) ==
    /\ pc' = "returned"
    /\ result' = <<r>>
    /\ UNCHANGED error

---------------------------------------------------------------------------
\* adjust_audio_tempo

\* Mutant: if target_duration < 0
TargetInvalid_Negative(t) == t < 0

\* if target_duration <= 0
TargetInvalid(t) == t <= 0

\* if not os.path.exists(input_file): raise FileNotFoundError
\* if target_duration <= 0: raise ValueError
Validate ==
    /\ pc = "validate"
    /\ IF ~input_exists
         THEN Raise("FileNotFoundError")
         ELSE IF TargetInvalid(target_duration)
                THEN Raise("ValueError")
                ELSE pc' = "check_rubberband" /\ UNCHANGED <<result, error>>
    /\ UNCHANGED <<sepVars, inputVars, adjustLocals, fallbackLocals, mainVars,
                   rb_time, cmds, printed, output>>

\* check_rubberband(): runs `rubberband --help`
CheckRubberband ==
    /\ pc = "check_rubberband"
    /\ \E available \in BOOLEAN :
         /\ cmds' = Ran("rubberband --help", OkOrFailed(available))
         /\ IF available
              THEN pc' = "probe" /\ UNCHANGED <<result, error>>
              ELSE Raise("RubberbandUnavailable")
    /\ UNCHANGED <<sepVars, inputVars, adjustLocals, fallbackLocals, mainVars,
                   rb_time, printed, output>>

\* current_duration = get_audio_duration(input_file)
ProbeInput ==
    /\ pc = "probe"
    /\ \E ok \in BOOLEAN :
         /\ cmds' = Ran("ffprobe", OkOrFailed(ok))
         /\ IF ok
              THEN /\ current_duration' = file_duration
                   /\ pc' = "compute"
                   /\ UNCHANGED <<result, error>>
              ELSE /\ Raise("ProbeError")
                   /\ UNCHANGED current_duration
    /\ UNCHANGED <<sepVars, inputVars, required_tempo, stretch_ratio, clamped_stretch,
                   clamped_tempo, fallbackLocals, mainVars, rb_time, printed,
                   output>>

\* The dict returned by the no-op short-circuit.
NoOpResult(req) ==
    [tempo_applied |-> One, tempo_required |-> req, stretch_ratio |-> One,
     processed |-> FALSE, method |-> "copy"]

\* The dict returned after a successful rubberband run.
RubberbandResult(req, ct, cs) ==
    [tempo_applied |-> ct, tempo_required |-> req, stretch_ratio |-> cs,
     processed |-> TRUE, method |-> "rubberband"]

\* The dict returned by fallback_to_atempo.
FallbackResult(t, ct) ==
    [tempo_applied |-> ct, tempo_required |-> t,
     stretch_ratio |-> RDiv(One, ct),
     processed |-> TRUE, method |-> "atempo_fallback"]

\* From the ratios to the no-op short-circuit or to the rubberband command.
ComputeStretch ==
    /\ pc = "compute"
    /\ IF current_duration = 0
         THEN \* target_duration / current_duration
              /\ Raise("ZeroDivisionError")
              /\ UNCHANGED <<adjustLocals, printed, output>>
         ELSE LET req == Rat(current_duration, target_duration)
                  s == Rat(target_duration, current_duration)
                  cs == ClampStretch(s)
                  ct == RDiv(One, cs)
                  note == IF ClampNoteNeeded(cs, s) THEN {"clamped"} ELSE {}
              IN  /\ required_tempo' = req
                  /\ stretch_ratio' = s
                  /\ clamped_stretch' = cs
                  /\ clamped_tempo' = ct
                  /\ UNCHANGED current_duration
                  /\ IF WithinFivePercent(cs)
                       THEN /\ printed' = printed \cup note \cup {"not_needed"}
                            /\ output' = "copy_of_input"
                            /\ Return(NoOpResult(req))
                       ELSE /\ printed' = printed \cup note \cup {"applying_rubberband"}
                            /\ pc' = "rubberband"
                            /\ UNCHANGED <<output, result, error>>
    /\ UNCHANGED <<sepVars, inputVars, fallbackLocals, mainVars, rb_time, cmds>>

\* except subprocess.CalledProcessError: print("Rubberband failed ...");
\* return fallback_to_atempo(input_file, required_tempo, output_file, ...)
RubberbandFailed ==
    /\ printed' = printed \cup {"falling_back"}
    /\ tempo' = required_tempo
    /\ pc' = "fb_clamp"
    /\ UNCHANGED <<output, result, error>>

\* subprocess.run(['rubberband', '--time', str(clamped_stretch), ...], check=True)
RunRubberband ==
    /\ pc = "rubberband"
    /\ rb_time' = clamped_stretch
    /\ \E outcome \in {"ok", "failed", "oserror"} :
         /\ cmds' = Ran("rubberband", outcome)
         /\ CASE outcome = "ok" ->
                   /\ output' = "rubberband_output"
                   /\ pc' = "verify"
                   /\ UNCHANGED <<printed, tempo, result, error>>
              [] outcome = "failed" -> RubberbandFailed
              [] outcome = "oserror" ->
                   \* not a CalledProcessError: propagates
                   /\ Raise("OSError")
                   /\ UNCHANGED <<printed, tempo, output>>
    /\ UNCHANGED <<sepVars, inputVars, adjustLocals, fb_clamped_tempo, remaining_tempo,
                   filters, atempo_chain, hi_iters, lo_iters, mainVars>>

\* Mutant: the failed re-probe is caught like a failed rubberband command.
VerifyRubberbandFailed_Caught ==
    /\ printed' = printed \cup {"falling_back"}
    /\ tempo' = required_tempo
    /\ pc' = "fb_clamp"
    /\ UNCHANGED <<output, result, error>>

\* get_audio_duration(output_file) failed inside the try block: it raises
\* RuntimeError, which `except subprocess.CalledProcessError` does not catch.
VerifyRubberbandFailed ==
    /\ Raise("ProbeError")
    /\ UNCHANGED <<printed, tempo, output>>

\* final_duration = get_audio_duration(output_file); return {...}
VerifyRubberband ==
    /\ pc = "verify"
    /\ \E ok \in BOOLEAN :
         /\ cmds' = Ran("ffprobe", OkOrFailed(ok))
         /\ IF ok
              THEN /\ Return(RubberbandResult(required_tempo, clamped_tempo,
                                              clamped_stretch))
                   /\ UNCHANGED <<printed, tempo, output>>
              ELSE VerifyRubberbandFailed
    /\ UNCHANGED <<sepVars, inputVars, adjustLocals, fb_clamped_tempo, remaining_tempo,
                   filters, atempo_chain, hi_iters, lo_iters, mainVars,
                   rb_time>>

---------------------------------------------------------------------------
\* fallback_to_atempo(input_file, tempo, output_file, current_duration,
\*                    target_duration)

\* clamped_tempo = max(0.5, min(100.0, tempo)); filters = [];
\* remaining_tempo = clamped_tempo
FallbackClamp ==
    /\ pc = "fb_clamp"
    /\ fb_clamped_tempo' = ClampTempo(tempo)
    /\ filters' = <<>>
    /\ remaining_tempo' = ClampTempo(tempo)
    /\ pc' = "fb_peel_hi"
    /\ UNCHANGED <<sepVars, inputVars, adjustLocals, tempo, atempo_chain, hi_iters,
                   lo_iters, mainVars, rb_time, cmds, printed, output,
                   result, error>>

\* One evaluation of a loop condition of the two peeling loops, and the loop
\* body when it is true: first `while remaining_tempo > 2.0`, and once that
\* is false `while remaining_tempo < 0.5`.
PeelStep ==
    /\ pc \in {"fb_peel_hi", "fb_peel_lo"}
    /\ IF pc = "fb_peel_hi"
         THEN IF PeelHiGuard(remaining_tempo)
                THEN /\ filters' = Append(filters, Two)
                     /\ remaining_tempo' = RDiv(remaining_tempo, Two)
                     /\ hi_iters' = hi_iters + 1
                     /\ UNCHANGED <<pc, lo_iters>>
                ELSE /\ pc' = "fb_peel_lo"
                     /\ UNCHANGED <<filters, remaining_tempo, hi_iters, lo_iters>>
         ELSE IF PeelLoGuard(remaining_tempo)
                THEN /\ filters' = Append(filters, Half)
                     /\ remaining_tempo' = RDiv(remaining_tempo, Half)
                     /\ lo_iters' = lo_iters + 1
                     /\ UNCHANGED <<pc, hi_iters>>
                ELSE /\ pc' = "fb_chain"
                     /\ UNCHANGED <<filters, remaining_tempo, hi_iters, lo_iters>>
    /\ UNCHANGED <<sepVars, inputVars, adjustLocals, tempo, fb_clamped_tempo,
                   atempo_chain, mainVars, rb_time, cmds, printed, output,
                   result, error>>

\* if remaining_tempo != 1.0: filters.append(remaining_tempo)
\* atempo_chain = ','.join(...); print("Using atempo fallback: ...")
BuildChain ==
    /\ pc = "fb_chain"
    /\ filters' = AppendRemainder(filters, remaining_tempo)
    /\ atempo_chain' = AtempoChain(filters')
    /\ printed' = printed \cup {"using_atempo"}
    /\ pc' = "ffmpeg"
    /\ UNCHANGED <<sepVars, inputVars, adjustLocals, tempo, fb_clamped_tempo,
                   remaining_tempo, hi_iters, lo_iters, mainVars, rb_time,
                   cmds, output, result, error>>

\* Mutant: a failed ffmpeg command is run again.
FfmpegFailed_Retry ==
    /\ pc' = "ffmpeg"
    /\ UNCHANGED <<output, result, error>>

\* except subprocess.CalledProcessError as e:
\*     raise RuntimeError("Both Rubberband and FFmpeg atempo failed: ...")
FfmpegFailed ==
    /\ Raise("BothFailed")
    /\ UNCHANGED output

\* subprocess.run(['ffmpeg', '-y', '-i', input_file, '-af', atempo_chain,
\*                 output_file], check=True)
RunFfmpeg ==
    /\ pc = "ffmpeg"
    /\ \E outcome \in {"ok", "failed", "oserror"} :
         /\ cmds' = Ran("ffmpeg", outcome)
         /\ CASE outcome = "ok" ->
                   /\ output' = "ffmpeg_output"
                   /\ pc' = "fb_verify"
                   /\ UNCHANGED <<result, error>>
              [] outcome = "failed" -> FfmpegFailed
              [] outcome = "oserror" ->
                   \* not a CalledProcessError: propagates
                   /\ Raise("OSError")
                   /\ UNCHANGED output
    /\ UNCHANGED <<sepVars, inputVars, adjustLocals, fallbackLocals, mainVars,
                   rb_time, printed>>

\* final_duration = get_audio_duration(output_file); return {...}
VerifyFallback ==
    /\ pc = "fb_verify"
    /\ \E ok \in BOOLEAN :
         /\ cmds' = Ran("ffprobe", OkOrFailed(ok))
         /\ IF ok
              THEN Return(FallbackResult(tempo, fb_clamped_tempo))
              ELSE Raise("ProbeError")
    /\ UNCHANGED <<sepVars, inputVars, adjustLocals, fallbackLocals, mainVars,
                   rb_time, printed, output>>

---------------------------------------------------------------------------
\* main: print the result and exit 0, or print the error to standard error
\* and sys.exit(1).
MainExit ==
    /\ entry = "main"
    /\ pc \in {"returned", "raised"}
    /\ pc' = "exited"
    /\ IF pc = "returned"
         THEN exit_code' = 0 /\ UNCHANGED stderr
         ELSE exit_code' = 1 /\ stderr' = error
    /\ UNCHANGED <<sepVars, inputVars, adjustLocals, fallbackLocals, rb_time, cmds,
                   printed, output, result, error>>

NextFallback ==
    \/ FallbackClamp
    \/ PeelStep
    \/ BuildChain
    \/ RunFfmpeg
    \/ VerifyFallback

Next ==
    \/ Validate
    \/ CheckRubberband
    \/ ProbeInput
    \/ ComputeStretch
    \/ RunRubberband
    \/ VerifyRubberband
    \/ NextFallback
    \/ MainExit

\* The CLI: main -> adjust_audio_tempo (-> fallback_to_atempo).
Spec == Init /\ [][Next]_vars

\* fallback_to_atempo called on its own with any positive tempo
\* current_duration / target_duration of the grid.
InitFallback ==
    /\ entry = "fallback"
    /\ pc = "fb_clamp"
    /\ input_exists = TRUE
    /\ current_duration \in 1..MaxDur
    /\ file_duration = current_duration
    /\ target_duration \in 1..MaxDur
    /\ tempo = Rat(current_duration, target_duration)
    /\ Fresh
    /\ chunk_duration = 0 /\ SepFresh

SpecFallback == InitFallback /\ [][NextFallback]_vars

---------------------------------------------------------------------------
\* Properties.

Tolerance == <<1, 1000>>
FivePercent == <<1, 20>>

\* |a - b|
Dist(a, b) == RAbs(RSub(a, b))

\* adjust_audio_tempo has computed its ratios from a probed duration > 0.
Computed == entry = "main" /\ clamped_stretch # Zero

\* The no-op short-circuit was taken: no stretch backend ran, the input was
\* copied to the output path and the result says processed = False.
NoOpTaken ==
    /\ pc \in {"returned", "exited"}
    /\ Count("rubberband") = 0 /\ Count("ffmpeg") = 0
    /\ output = "copy_of_input"
    /\ result # <<>> /\ result[1].processed = FALSE

\* C1 as stated: whenever the clamped multiplier (the tempo to be applied,
\* current/target after clamping) differs from 1.0 by at most 0.05, the
\* no-op short-circuit is taken.  Stated for the multipliers strictly inside
\* the 5% band, where exact and double arithmetic agree that the premise
\* holds; the statement with "at most" covers these cases too.
C1_NoOpWhenTempoWithinFivePercent ==
    (Computed /\ Lt(Dist(clamped_tempo, One), FivePercent)) => NoOpTaken

\* C1 amended: whenever the clamped stretch ratio (target/current clamped to
\* [0.3, 3.0]) is strictly within 0.05 of 1.0, which is when the code's double
\* comparison abs(clamped_stretch - 1.0) <= 0.05 is true, no stretch backend
\* is invoked, the input is copied to the output path and processed = False.
C1_NoOpWhenStretchWithinFivePercent ==
    (Computed /\ Lt(Dist(clamped_stretch, One), FivePercent)) => NoOpTaken

\* C1 witness: a run that took the short-circuit for a ratio other than 1.
C1_Witness ==
    /\ Computed /\ NoOpTaken /\ pc = "exited"
    /\ stretch_ratio # One
    /\ Lt(Dist(clamped_stretch, One), FivePercent)

\* The stretch commands run so far, in order.
StretchRuns == SelectSeq(cmds, LAMBDA c : c.cmd \in {"rubberband", "ffmpeg"})

\* C2: the stretch backends run in a fixed order, at most once each:
\* rubberband first, ffmpeg only directly after a failed rubberband command
\* and never after a successful one; a failed ffmpeg command ends the
\* invocation with the error "Both Rubberband and FFmpeg atempo failed" and
\* without a result; there is never a third stretch attempt.
C2_BackendOrder ==
    entry = "main" =>
      /\ Len(StretchRuns) <= 2
      /\ Count("rubberband") <= 1 /\ Count("ffmpeg") <= 1
      /\ StretchRuns # <<>> => StretchRuns[1].cmd = "rubberband"
      /\ Len(StretchRuns) = 2 =>
           /\ StretchRuns[1].outcome = "failed"
           /\ StretchRuns[2].cmd = "ffmpeg"
      /\ \A i \in 1..Len(cmds) :
           (cmds[i].cmd = "ffmpeg" /\ cmds[i].outcome # "ok") =>
             /\ i = Len(cmds)
             /\ pc \in {"raised", "exited"}
             /\ result = <<>>
             /\ error # "none"
             /\ cmds[i].outcome = "failed" => error = "BothFailed"
             /\ pc = "exited" => exit_code = 1

\* C2 witness: rubberband failed, then ffmpeg failed, and the CLI exited 1.
C2_Witness ==
    /\ entry = "main" /\ pc = "exited" /\ exit_code = 1
    /\ error = "BothFailed"
    /\ Len(StretchRuns) = 2
    /\ StretchRuns[1] = [cmd |-> "rubberband", outcome |-> "failed"]
    /\ StretchRuns[2] = [cmd |-> "ffmpeg", outcome |-> "failed"]

---------------------------------------------------------------------------
\* The planner of fallback_to_atempo.

\* The plan (filters) is complete: the chain has been built.
PlanBuilt ==
    \/ pc \in {"ffmpeg", "fb_verify"}
    \/ pc \in {"returned", "raised", "exited"} /\ Count("ffmpeg") > 0

\* |p - m| <= m * 1e-6, for m > 0 (computed without large products).
RelClose(p, m) ==
    LET q == RDiv(Dist(p, m), m)
    IN  q[1] = 0 \/ q[2] \div q[1] >= 1000000

AllStages(f, P(_)) == \A i \in 1..Len(f) : P(f[i])

\* C3: for every multiplier m with 2.0 < m <= 100.0 given to the planner,
\* every stage of the plan is <= 2.0 and the product of the stages equals m
\* within a relative tolerance of 1e-6.
C3_PlanAboveUpperBound ==
    (PlanBuilt /\ Lt(Two, tempo) /\ Le(tempo, atempo_max)) =>
      /\ AllStages(filters, LAMBDA t : Le(t, Two))
      /\ RelClose(Product(filters), tempo)

\* C3 witness: the plan for m = 100.0 has been built, in seven stages.
C3_Witness ==
    /\ PlanBuilt /\ tempo = atempo_max
    /\ filters = <<Two, Two, Two, Two, Two, Two, <<25, 16>>>>

\* C4 as stated: for every m in [0.5, 2.0], m = 1.0 included, the plan is
\* exactly [m].
C4_PlanWithinBoundsIsSingleton ==
    (PlanBuilt /\ Le(Half, tempo) /\ Le(tempo, Two)) => filters = <<tempo>>

\* C4 amended: for every m in [0.5, 2.0] other than 1.0 the plan is exactly
\* [m]; for m = 1.0 the plan is empty (the no-op stage is left out).
C4_PlanWithinBounds ==
    (PlanBuilt /\ Le(Half, tempo) /\ Le(tempo, Two)) =>
      filters = (IF tempo = One THEN <<>> ELSE <<tempo>>)

\* C4 witness: the planner was given m = 1.0 and built the empty plan.
C4_Witness == PlanBuilt /\ tempo = One /\ filters = <<>> /\ atempo_chain = <<>>

\* C5 as stated: for every m with 0 < m < 0.5 every stage of the plan is
\* >= 0.5 and the product of the stages equals m within tolerance.
C5_PlanBelowLowerBoundProductIsM ==
    (PlanBuilt /\ Lt(Zero, tempo) /\ Lt(tempo, Half)) =>
      /\ AllStages(filters, LAMBDA t : Le(Half, t))
      /\ RelClose(Product(filters), tempo)

\* C5 amended: for every m with 0 < m < 0.5 the tempo is first clamped to
\* 0.5 and the plan is the single stage [0.5]: every stage is >= 0.5 and the
\* product of the stages equals the clamped tempo 0.5 (reported as
\* tempo_applied), not m; the second peeling loop makes no iteration.
C5_PlanBelowLowerBoundIsClamped ==
    (PlanBuilt /\ Lt(Zero, tempo) /\ Lt(tempo, Half)) =>
      /\ AllStages(filters, LAMBDA t : Le(Half, t))
      /\ filters = <<Half>>
      /\ Product(filters) = fb_clamped_tempo
      /\ fb_clamped_tempo = Half
      /\ lo_iters = 0
      /\ result # <<>> => result[1].tempo_applied = Half

\* C5 witness: the fallback returned for a tempo below 0.25.
C5_Witness ==
    /\ PlanBuilt /\ pc = "returned" /\ Lt(tempo, <<1, 4>>)
    /\ filters = <<Half>>

---------------------------------------------------------------------------
\* Clamping, validation and failures in adjust_audio_tempo.

\* C6: on every path that returns a result, if the ratio applied differs from
\* the ratio requested by more than 0.001 because of clamping (the stretch
\* ratio clamped to [0.3, 3.0] on the copy and rubberband paths, the tempo
\* clamped to [0.5, 100.0] on the fallback path), a clamp note was printed.
C6_ClampIsNoted ==
    (entry = "main" /\ result # <<>>) =>
      IF result[1].method = "atempo_fallback"
        THEN Lt(Tolerance, Dist(result[1].tempo_applied, result[1].tempo_required))
               => "clamped" \in printed
        ELSE Lt(Tolerance, Dist(clamped_stretch, stretch_ratio))
               => "clamped" \in printed

ValidationErrors == {"FileNotFoundError", "ValueError", "RubberbandUnavailable"}

\* C7: validation is in the order input exists, target_duration > 0,
\* rubberband available, and only then is the duration probed; a validation
\* failure ends the invocation in an error (the CLI prints it to standard
\* error and exits 1) with no probe, no stretch command and nothing written
\* to the output path, and no step is attempted again.
C7_ValidationBeforeProbe ==
    entry = "main" =>
      /\ (pc # "validate" /\ ~input_exists) =>
           error = "FileNotFoundError" /\ cmds = <<>>
      /\ (pc # "validate" /\ input_exists /\ target_duration <= 0) =>
           error = "ValueError" /\ cmds = <<>>
      /\ cmds # <<>> =>
           /\ input_exists /\ target_duration > 0
           /\ cmds[1].cmd = "rubberband --help"
           /\ Count("rubberband --help") = 1
           /\ cmds[1].outcome # "ok" =>
                error = "RubberbandUnavailable" /\ Len(cmds) = 1
      /\ error \in ValidationErrors =>
           /\ pc \in {"raised", "exited"}
           /\ Count("ffprobe") = 0
           /\ Count("rubberband") = 0 /\ Count("ffmpeg") = 0
           /\ output = "none" /\ result = <<>>
           /\ pc = "exited" => exit_code = 1 /\ stderr = error

\* C7 witness: the CLI exited 1 because rubberband is unavailable.
C7_Witness ==
    /\ entry = "main" /\ pc = "exited" /\ exit_code = 1
    /\ stderr = "RubberbandUnavailable"
    /\ cmds = <<[cmd |-> "rubberband --help", outcome |-> "failed"]>>

\* current duration 100.0 s, target duration 2.0 s, ratios computed.
C8_Case == Computed /\ current_duration = 100 /\ target_duration = 2

\* C8 as stated: for current 100.0 s and target 2.0 s the required multiplier
\* is 50.0, it is applied unclamped, and the plan executed is [50.0].
C8_PlanIsSingleFifty ==
    C8_Case =>
      /\ required_tempo = <<50, 1>>
      /\ Count("rubberband") > 0 => rb_time = <<1, 50>>
      /\ PlanBuilt => filters = <<<<50, 1>>>>

\* C8 amended: for current 100.0 s and target 2.0 s the required multiplier is
\* 50.0 (stretch ratio 0.02); the stretch ratio is clamped to 0.3 (tempo
\* 3.333), the clamp note is printed and rubberband is run with --time 0.3;
\* only if rubberband fails the fallback applies the tempo 50.0 unclamped
\* (it is within [0.5, 100]) and the plan executed is the six stages
\* [2, 2, 2, 2, 2, 1.5625], whose product is 50.0.
C8_FiftyIsClampedOrChained ==
    C8_Case =>
      /\ required_tempo = <<50, 1>>
      /\ clamped_stretch = <<3, 10>> /\ clamped_tempo = <<10, 3>>
      /\ "clamped" \in printed
      /\ ~NoOpTaken
      /\ Count("rubberband") > 0 => rb_time = <<3, 10>>
      /\ PlanBuilt =>
           /\ fb_clamped_tempo = <<50, 1>>
           /\ filters = <<Two, Two, Two, Two, Two, <<25, 16>>>>
           /\ Product(filters) = <<50, 1>>
           /\ atempo_chain = <<2000000, 2000000, 2000000, 2000000, 2000000,
                               1562500>>
      /\ result # <<>> =>
           result[1].tempo_applied =
             (IF result[1].method = "rubberband" THEN <<10, 3>> ELSE <<50, 1>>)

\* C8 witness: the fallback ran ffmpeg for 100.0 s -> 2.0 s and returned.
C8_Witness ==
    /\ C8_Case /\ PlanBuilt /\ pc = "returned"
    /\ result[1].method = "atempo_fallback"

\* C9: a failed duration probe is fatal and never starts the fallback: it is
\* the last command of the invocation, which ends with the probe's error and
\* no result; ffmpeg runs only directly after a rubberband stretch command
\* that exited non-zero.
C9_ProbeFailureIsFatal ==
    entry = "main" =>
      \A i \in 1..Len(cmds) :
        /\ (cmds[i].cmd = "ffprobe" /\ cmds[i].outcome # "ok") =>
             /\ i = Len(cmds)
             /\ pc \in {"raised", "exited"}
             /\ error = "ProbeError" /\ result = <<>>
             /\ cmds[i - 1].cmd # "ffmpeg" => Count("ffmpeg") = 0
             /\ pc = "exited" => exit_code = 1
        /\ cmds[i].cmd = "ffmpeg" =>
             /\ i > 1
             /\ cmds[i - 1] = [cmd |-> "rubberband", outcome |-> "failed"]

\* C9 witness: rubberband succeeded, the re-probe failed, ffmpeg never ran.
C9_Witness ==
    /\ entry = "main" /\ pc = "exited" /\ error = "ProbeError"
    /\ Len(cmds) = 4
    /\ cmds[3] = [cmd |-> "rubberband", outcome |-> "ok"]
    /\ cmds[4] = [cmd |-> "ffprobe", outcome |-> "failed"]
    /\ output = "rubberband_output"

\* C10: for every positive tempo given to fallback_to_atempo, also outside
\* [0.5, 100.0], the two peeling loops terminate (together they make at most
\* 6 iterations), they do not alternate (never both make an iteration, and
\* the first loop's condition stays false during the second), the remainder
\* they leave is within [0.5, 2.0], and the plan has at most 7 stages.
C10_PeelingTerminates ==
    /\ hi_iters + lo_iters <= 6
    /\ ~(hi_iters > 0 /\ lo_iters > 0)
    /\ Len(filters) <= 7
    /\ pc = "fb_peel_lo" => ~PeelHiGuard(remaining_tempo)
    /\ (pc = "fb_chain" \/ PlanBuilt) =>
         Le(Half, remaining_tempo) /\ Le(remaining_tempo, Two)

\* C10 witness: a tempo above 100.0 was planned in seven stages.
C10_Witness ==
    /\ entry = "fallback" /\ PlanBuilt
    /\ Lt(atempo_max, tempo)
    /\ hi_iters = 6 /\ Len(filters) = 7

---------------------------------------------------------------------------
\* separate_audio.py: main -> separate_audio -> process_audio_chunks.
\*
\* Times are whole seconds of the grid.  librosa, Spleeter and soundfile are
\* black boxes whose calls succeed or raise; separator.separate returns stems
\* as long as the chunk it is given.  A stem is kept as the sequence of the
\* intervals <<from, to>> of the input that were concatenated into it.
\* chunk_duration is drawn from 1..MaxChunk (with chunk_duration <= 0 the
\* loop of process_audio_chunks never advances).

MaxChunk == 70

\* def process_audio_chunks(audio_path, chunk_duration=30, overlap=2)
overlap == 2

\* if duration <= 60: process short files normally
DirectLimit == 60

IMin(a, b) == IF a < b THEN a ELSE b
IMax(a, b) == IF a < b THEN b ELSE a

tempoVars == <<target_duration, adjustLocals, fallbackLocals, rb_time, cmds,
               printed, result>>

\* python separate_audio.py <input_audio_path> <output_directory> [chunk_duration]
InitSeparate ==
    /\ entry = "separate"
    /\ pc = "sep_validate"
    /\ input_exists \in BOOLEAN
    /\ file_duration \in 0..MaxDur
    /\ (~input_exists => file_duration = 0)
    /\ chunk_duration \in 1..MaxChunk
    /\ target_duration = 0 /\ current_duration = 0 /\ tempo = Zero
    /\ Fresh
    /\ SepFresh

\* separate_audio up to the choice between the direct and the chunked path:
\* the input must exist, the Separator is built, the duration is read.
SepValidate ==
    /\ pc = "sep_validate"
    /\ IF ~input_exists
         THEN Raise("FileNotFoundError") /\ UNCHANGED duration
         ELSE \E ok \in BOOLEAN :
                IF ok
                  THEN /\ duration' = file_duration
                       /\ pc' = IF file_duration <= DirectLimit
                                  THEN "sep_direct" ELSE "gen_start"
                       /\ UNCHANGED <<result, error>>
                  ELSE Raise("Exception") /\ UNCHANGED duration
    /\ UNCHANGED <<inputVars, tempoVars, mainVars, output, chunk_duration,
                   start_time, end_time, chunk_start, chunk_end, vocals_full,
                   accompaniment_full>>

\* separator.separate_to_file(input_audio_path, output_directory); return
SepDirect ==
    /\ pc = "sep_direct"
    /\ \E ok \in BOOLEAN :
         IF ok
           THEN /\ output' = "stems_direct"
                /\ pc' = "returned"
                /\ UNCHANGED <<result, error>>
           ELSE Raise("Exception") /\ UNCHANGED output
    /\ UNCHANGED <<inputVars, tempoVars, mainVars, sepVars>>

\* The for loop starts the generator: process_audio_chunks reads the
\* duration and the sample rate and sets start_time = 0.
GenStart ==
    /\ pc = "gen_start"
    /\ \E ok \in BOOLEAN :
         IF ok
           THEN /\ start_time' = 0
                /\ pc' = "gen_loop"
                /\ UNCHANGED <<result, error>>
           ELSE Raise("Exception") /\ UNCHANGED start_time
    /\ UNCHANGED <<inputVars, tempoVars, mainVars, output, chunk_duration,
                   duration, end_time, chunk_start, chunk_end, vocals_full,
                   accompaniment_full>>

\* while start_time < duration: the bounds of the chunk, librosa.load of
\* [chunk_start, chunk_end) and the yield; or the end of the generator.
ChunkLoad ==
    /\ pc = "gen_loop"
    /\ IF start_time < duration
         THEN LET e == IMin(start_time + chunk_duration, duration)
              IN  /\ end_time' = e
                  /\ chunk_start' = IMax(0, start_time - overlap)
                  /\ chunk_end' = IMin(duration, e + overlap)
                  /\ \E ok \in BOOLEAN :
                       IF ok
                         THEN pc' = "chunk_body" /\ UNCHANGED <<result, error>>
                         ELSE Raise("Exception")
         ELSE /\ pc' = "save"
              /\ UNCHANGED <<end_time, chunk_start, chunk_end, result, error>>
    /\ UNCHANGED <<inputVars, tempoVars, mainVars, output, chunk_duration,
                   duration, start_time, vocals_full, accompaniment_full>>

\* np.vstack([full, chunk]) (a copy of the chunk on the first iteration)
Concatenate(full, from, to) == Append(full, <<from, to>>)

\* The body of the for loop: the loaded chunk is separated and its stems are
\* concatenated to vocals_full and accompaniment_full.
ChunkBody ==
    /\ pc = "chunk_body"
    /\ \E ok \in BOOLEAN :
         IF ok
           THEN /\ vocals_full' = Concatenate(vocals_full, chunk_start, chunk_end)
                /\ accompaniment_full' =
                     Concatenate(accompaniment_full, chunk_start, chunk_end)
                /\ pc' = "gen_resume"
                /\ UNCHANGED <<result, error>>
           ELSE /\ Raise("Exception")
                /\ UNCHANGED <<vocals_full, accompaniment_full>>
    /\ UNCHANGED <<inputVars, tempoVars, mainVars, output, chunk_duration,
                   duration, start_time, end_time, chunk_start, chunk_end>>

\* The generator resumes after the yield: start_time = end_time
ChunkResume ==
    /\ pc = "gen_resume"
    /\ start_time' = end_time
    /\ pc' = "gen_loop"
    /\ UNCHANGED <<inputVars, tempoVars, mainVars, output, result, error,
                   chunk_duration, duration, end_time, chunk_start, chunk_end,
                   vocals_full, accompaniment_full>>

\* sf.write of the two stems
SaveStems ==
    /\ pc = "save"
    /\ \E ok \in BOOLEAN :
         IF ok
           THEN /\ output' = "stems_chunked"
                /\ pc' = "returned"
                /\ UNCHANGED <<result, error>>
           ELSE Raise("Exception") /\ UNCHANGED output
    /\ UNCHANGED <<inputVars, tempoVars, mainVars, sepVars>>

\* main: exit 0, or log the error and sys.exit(1)
SepMainExit ==
    /\ entry = "separate"
    /\ pc \in {"returned", "raised"}
    /\ pc' = "exited"
    /\ IF pc = "returned"
         THEN exit_code' = 0 /\ UNCHANGED stderr
         ELSE exit_code' = 1 /\ stderr' = error
    /\ UNCHANGED <<inputVars, tempoVars, sepVars, output, result, error>>

NextSeparate ==
    \/ SepValidate
    \/ SepDirect
    \/ GenStart
    \/ ChunkLoad
    \/ ChunkBody
    \/ ChunkResume
    \/ SaveStems
    \/ SepMainExit

SpecSeparate == InitSeparate /\ [][NextSeparate]_vars

RECURSIVE TotalLength(_)
TotalLength(full) ==
    IF full = <<>> THEN 0
    ELSE (Head(full)[2] - Head(full)[1]) + TotalLength(Tail(full))

\* How many times second t of the input occurs in the stem.
Occurrences(full, t) ==
    Cardinality({i \in 1..Len(full) : full[i][1] <= t /\ t < full[i][2]})

CoversInputOnce(full) ==
    /\ TotalLength(full) = duration
    /\ \A t \in 0..(duration - 1) : Occurrences(full, t) = 1

\* The chunk loop of the chunked path has ended.
ChunkLoopDone ==
    /\ entry = "separate"
    /\ pc = "save" \/ output = "stems_chunked"

\* C11: in the chunked path (input longer than 60 s, chunk_duration > 0) the
\* chunk loop terminates, making at most one iteration per started
\* chunk_duration of input, and the audio concatenated into the stems covers
\* every instant of [0, duration) exactly once, so that the length of the
\* concatenated vocals and accompaniment equals the input duration.
C11_ChunksCoverInputOnce ==
    /\ entry = "separate" =>
         Len(vocals_full) * chunk_duration < duration + chunk_duration
    /\ ChunkLoopDone =>
         /\ CoversInputOnce(vocals_full)
         /\ CoversInputOnce(accompaniment_full)

=============================================================================
